---- MODULE Spec2Model ----
(***************************************************************************)
(* PruningService (packages/bitcore-node/src/services/pruning.ts).         *)
(*                                                                         *)
(* The transaction and coin collections are sequences of records in        *)
(* storage order.  One detectAndClear invocation is a "run"; its await     *)
(* points are the values of run[s].pc.  The timer, stop() and the store    *)
(* calls of a cascade interleave with the run at those points.             *)
(***************************************************************************)
EXTENDS Integers, Sequences, FiniteSets, TLC

VARIABLES
    txs,            \* transactionModel.collection, storage order
    coins,          \* coinModel.collection, storage order
    args,           \* parsed argv: OLD, INVALID, EXIT, DRY
    CHAIN,          \* args.CHAIN || PRUNING_CHAIN ("" when not given)
    NETWORK,        \* args.NETWORK || PRUNING_NETWORK ("" when not given)
    chainNetworks,  \* Config.chainNetworks()
    stopping,       \* this.stopping
    running,        \* this.running
    interval,       \* this.interval is an armed timer
    started,        \* start() has been called
    alive,          \* the process has not died of an unhandled rejection
    exit,           \* the promise start() chains the SIGINT on
    sigints,        \* number of process.emit('SIGINT') calls
    run,            \* the detectAndClear invocations, by slot
    ended,          \* the error of the run that ended last (history)
    last,           \* the step taken last (history)
    late,           \* Date.now() has moved on since the records were written
    swept           \* pairs the run that ended last swept for old txs (history)

vars == <<txs, coins, args, CHAIN, NETWORK, chainNetworks, stopping, running,
          interval, started, alive, exit, sigints, run, ended, last, late,
          swept>>

config == <<args, CHAIN, NETWORK, chainNetworks>>

store == <<txs, coins>>

-----------------------------------------------------------------------------
(* Bounds and program constants *)

\* invocations of detectAndClear that can be in flight at once in the model
MaxSlots == 2

\* coins beyond the ceiling in the largest fan-out store
FanOutSlack == 1

\* blockHeight / mintHeight of a mempool record
Mempool == -1

\* blockHeight of a transaction flagged invalid
Invalid == -3

\* the lowest confirmed height (coin.mintHeight >= 0)
Genesis == 0

\* the closure ceiling
MaxDescendants == 50

\* SpentHeightIndicators.conflicting
Conflicting == -3

\* SpentHeightIndicators.unspent
Unspent == -2

Slots == 1..MaxSlots

-----------------------------------------------------------------------------
(* Store records *)

Tx(c, n, id, h, o) ==
    [chain |-> c, network |-> n, txid |-> id, blockHeight |-> h, old |-> o]

Coin(c, n, mt, mh, st, sh) ==
    [chain |-> c, network |-> n, mintTxid |-> mt, mintHeight |-> mh,
     spentTxid |-> st, spentHeight |-> sh]

RECURSIVE SpentTxidsOf(_)
\* the spentTxid of each coin of a sequence that has one, in order
SpentTxidsOf(cs) ==
    IF cs = <<>> THEN <<>>
    ELSE IF Head(cs).spentTxid # ""
         THEN <<Head(cs).spentTxid>> \o SpentTxidsOf(Tail(cs))
         ELSE SpentTxidsOf(Tail(cs))

RECURSIVE Expand(_, _, _)
\* the coins minted by each txid of the queue not seen before, then those
\* minted by their spenders
Expand(cs, queue, seen) ==
    IF queue = <<>> THEN <<>>
    ELSE LET t == Head(queue) IN
         IF t \in seen THEN Expand(cs, Tail(queue), seen)
         ELSE LET outputs == SelectSeq(cs, LAMBDA c : c.mintTxid = t) IN
              outputs \o Expand(cs, Tail(queue) \o SpentTxidsOf(outputs),
                                seen \cup {t})

\* transactionModel.yieldRelatedOutputs(txid): every coin reachable from the
\* seed's outputs via spend edges, in the order yielded
yieldRelatedOutputs(cs, txid) == Expand(cs, <<txid>>, {})

-----------------------------------------------------------------------------
(* Store queries and mutations *)

\* find({ chain, network, blockHeight: -1, blockTimeNormalized: { $lt: oldTime } })
\* with oldTime = Date.now() - days * ONE_DAY taken at the call: t.old says the
\* record was older than that at the start, later every record of the store is
FindOldMempool(ts, chain, network) ==
    SelectSeq(ts, LAMBDA t : /\ t.chain = chain
                             /\ t.network = network
                             /\ t.blockHeight = Mempool
                             /\ (t.old \/ late))

\* find({ chain, network, blockHeight: -3 })
FindInvalid(ts, chain, network) ==
    SelectSeq(ts, LAMBDA t : /\ t.chain = chain
                             /\ t.network = network
                             /\ t.blockHeight = Invalid)

RECURSIVE Txids(_)
Txids(ts) == IF ts = <<>> THEN <<>> ELSE <<Head(ts).txid>> \o Txids(Tail(ts))

\* the delete is not restricted to mempool height
DeleteTxsAnyHeight(ts, chain, network, txids) ==
    SelectSeq(ts, LAMBDA t : ~(/\ t.chain = chain
                               /\ t.network = network
                               /\ t.txid \in txids))

\* deleteMany({ chain, network, txid: { $in: txids }, blockHeight: -1 })
DeleteTxs(ts, chain, network, txids) ==
    SelectSeq(ts, LAMBDA t : ~(/\ t.chain = chain
                               /\ t.network = network
                               /\ t.txid \in txids
                               /\ t.blockHeight = Mempool))

\* the delete is not restricted to the pair
DeleteCoinsAnyPair(cs, chain, network, txids) ==
    SelectSeq(cs, LAMBDA c : ~(/\ c.mintTxid \in txids
                               /\ c.mintHeight = Mempool))

\* deleteMany({ chain, network, mintTxid: { $in: txids }, mintHeight: -1 })
DeleteCoins(cs, chain, network, txids) ==
    SelectSeq(cs, LAMBDA c : ~(/\ c.chain = chain
                               /\ c.network = network
                               /\ c.mintTxid \in txids
                               /\ c.mintHeight = Mempool))

\* updateMany({ txid: { $in } }, { $set: { blockHeight: conflicting } })
SetTxsConflicting(ts, txids) ==
    [i \in DOMAIN ts |->
        IF ts[i].txid \in txids
        THEN [ts[i] EXCEPT !.blockHeight = Conflicting] ELSE ts[i]]

\* the spent coins are marked conflicting instead of unspent
SetCoinsSpentConflicting(cs, txids) ==
    [i \in DOMAIN cs |->
        IF cs[i].spentTxid \in txids
        THEN [cs[i] EXCEPT !.spentHeight = Conflicting] ELSE cs[i]]

\* updateMany({ spentTxid: { $in } }, { $set: { spentHeight: unspent } })
SetCoinsUnspent(cs, txids) ==
    [i \in DOMAIN cs |->
        IF cs[i].spentTxid \in txids
        THEN [cs[i] EXCEPT !.spentHeight = Unspent] ELSE cs[i]]

\* the update selects only the coins still shown as spent
SetCoinsConflictingIfSpent(cs, txids) ==
    [i \in DOMAIN cs |->
        IF cs[i].mintTxid \in txids /\ cs[i].spentHeight # Unspent
        THEN [cs[i] EXCEPT !.mintHeight = Conflicting] ELSE cs[i]]

\* updateMany({ mintTxid: { $in } }, { $set: { mintHeight: conflicting } })
SetCoinsConflicting(cs, txids) ==
    [i \in DOMAIN cs |->
        IF cs[i].mintTxid \in txids
        THEN [cs[i] EXCEPT !.mintHeight = Conflicting] ELSE cs[i]]

\* the transactions are not deleted
RemoveCoinsOnly == {"deleteCoins"}

\* the store calls removeOldMempool issues in its Promise.all
RemoveCalls == {"deleteTxs", "deleteCoins"}

\* the store calls clearInvalid issues in its Promise.all
InvalidateCalls == {"updateTxs", "updateSpent", "updateMint"}

\* the transaction collection after one store call of a cascade
TxsAfter(call, ts, chain, network, txids) ==
    CASE call = "deleteTxs" -> DeleteTxs(ts, chain, network, txids)
      [] call = "updateTxs" -> SetTxsConflicting(ts, txids)
      [] OTHER -> ts

\* the coin collection after one store call of a cascade
CoinsAfter(call, cs, chain, network, txids) ==
    CASE call = "deleteCoins" -> DeleteCoins(cs, chain, network, txids)
      [] call = "updateSpent" -> SetCoinsUnspent(cs, txids)
      [] call = "updateMint" -> SetCoinsConflicting(cs, txids)
      [] OTHER -> cs

-----------------------------------------------------------------------------
(* The conditions the code branches on *)

\* the latch is never consulted
LatchIgnored == FALSE

\* if (this.running) { return; }
LatchHeld == running

\* if (CHAIN && NETWORK)
ExplicitPair == CHAIN # "" /\ NETWORK # ""

\* if (!chain || !network) throw
PairIncomplete(p) == p.chain = "" \/ p.network = ""

\* the flag is never polled
StopIgnored == FALSE

\* if (this.stopping) return cb(new Error('Stopping'))
StopRequested == stopping

\* only the mint height is looked at
IsConfirmedMintOnly(coin) == coin.mintHeight >= Genesis

\* if (coin.mintHeight >= 0 || coin.spentHeight >= 0)
IsConfirmed(coin) == coin.mintHeight >= Genesis \/ coin.spentHeight >= Genesis

\* the ceiling is off by one
TooManyDescendantsAtCeiling(count) == count >= MaxDescendants

\* if (count > 50) throw
TooManyDescendants(count) == count > MaxDescendants

\* if (coin.spentTxid) spentTxids.add(coin.spentTxid)
AddSpender(spentTxids, coin) ==
    IF coin.spentTxid # "" THEN spentTxids \cup {coin.spentTxid} ELSE spentTxids

\* the seed is not added to the set
SpendersOnly(spentTxids, txid) == spentTxids

\* spentTxids.add(tx.txid); const uniqueTxids = Array.from(spentTxids)
uniqueTxids(spentTxids, txid) == spentTxids \cup {txid}

\* the flag is not honoured
DryIgnored == FALSE

\* if (args.DRY) { return; }
DryRun == args.DRY

-----------------------------------------------------------------------------
(* One detectAndClear invocation *)

IdleRun ==
    [pc |-> "idle",       \* where the invocation is
     fromStart |-> FALSE, \* start() chained the SIGINT on this invocation
     pairIdx |-> 0,       \* position in Config.chainNetworks()
     chain |-> "", network |-> "",
     mode |-> "none",     \* "old" | "invalid": the pipeline in progress
     cands |-> <<>>,      \* txids the cursor has still to deliver, head first
     seed |-> "",         \* tx.txid of the candidate in the transform
     walk |-> <<>>,       \* coins outputGenerator has still to yield
     count |-> 0,
     spentTxids |-> {},
     affected |-> {},     \* the txids passed to the cascade
     pending |-> {},      \* store calls of the cascade not yet settled
     err |-> "none",      \* the error raised, if any
     visited |-> {},      \* history: positions of the pairs processed
     yielded |-> <<>>,    \* history: coins the loop took from the generator
     before |-> <<>>,     \* history: the store when the candidate began
     issued |-> 0]        \* history: store calls issued for the candidate

\* the candidate's locals are gone once the transform has called back
ClearCandidate(r) ==
    [r EXCEPT !.seed = "", !.walk = <<>>, !.count = 0, !.spentTxids = {},
              !.affected = {}, !.pending = {}, !.yielded = <<>>,
              !.before = <<>>, !.issued = 0]

Active(s) == run[s].pc # "idle"

ActiveRuns == {s \in Slots : Active(s)}

\* the slot a new invocation takes
FreeSlot == CHOOSE s \in Slots :
                ~Active(s) /\ \A t \in Slots : t < s => Active(t)

HasFreeSlot == \E s \in Slots : ~Active(s)

\* detectAndClear up to this.running = true
Enter(fromStart) ==
    /\ HasFreeSlot
    /\ running' = TRUE
    /\ run' = [run EXCEPT ![FreeSlot] =
                  [IdleRun EXCEPT !.pc = "pair", !.pairIdx = 1,
                                  !.fromStart = fromStart]]

\* after both modes of a pair: the explicit pair is the only one, the loop
\* goes on to the next configured pair
AfterPair(r) ==
    IF ExplicitPair
    THEN [r EXCEPT !.pc = "finally", !.mode = "none"]
    ELSE [r EXCEPT !.pc = "pair", !.mode = "none", !.pairIdx = r.pairIdx + 1]

\* an error that reaches detectAndClear's catch
Raise(r, e) ==
    [r EXCEPT !.pc = "catch", !.err = e, !.cands = <<>>, !.walk = <<>>,
              !.pending = {}]

\* an exception or rejection inside the async transform function
Throw(r, e) == [r EXCEPT !.pc = "thrown", !.err = e, !.pending = {}]

-----------------------------------------------------------------------------
(* Lifecycle: start, stop, the timer *)

\* start(): with EXIT one detectAndClear call whose promise the SIGINT is
\* chained on, otherwise setInterval
start ==
    /\ alive /\ ~started
    /\ started' = TRUE
    /\ last' = "start"
    /\ IF args.EXIT
       THEN /\ IF LatchHeld
               THEN exit' = "resolved" /\ UNCHANGED <<running, run>>
               ELSE exit' = "awaiting" /\ Enter(TRUE)
            /\ UNCHANGED interval
       ELSE /\ interval' = TRUE
            /\ UNCHANGED <<exit, running, run>>
    /\ UNCHANGED <<store, config, stopping, alive, sigints, ended, late, swept>>

\* the timer is left armed
stopFlagOnly ==
    /\ alive
    /\ ~stopping \/ interval
    /\ stopping' = TRUE
    /\ last' = "stop"
    /\ UNCHANGED <<store, config, running, interval, started, alive, exit,
                   sigints, run, ended, late, swept>>

\* stop(): this.stopping = true; clearInterval(this.interval)
stop ==
    /\ alive
    /\ ~stopping \/ interval
    /\ stopping' = TRUE
    /\ interval' = FALSE
    /\ last' = "stop"
    /\ UNCHANGED <<store, config, running, started, alive, exit, sigints, run,
                   ended, late, swept>>

\* the dropped call goes through the finally and clears the flag
TickDroppedReleases ==
    /\ alive /\ interval
    /\ LatchHeld
    /\ running' = FALSE
    /\ last' = "dropped"
    /\ UNCHANGED <<store, config, stopping, interval, started, alive, exit,
                   sigints, run, ended, late, swept>>

\* the timer calls detectAndClear while a run holds the latch: it returns
TickDropped ==
    /\ alive /\ interval
    /\ LatchHeld
    /\ last' = "dropped"
    /\ UNCHANGED <<store, config, stopping, running, interval, started, alive,
                   exit, sigints, run, ended, late, swept>>

\* the timer calls detectAndClear and the latch is free: a run begins
TickStarts ==
    /\ alive /\ interval
    /\ ~LatchHeld
    /\ Enter(FALSE)
    /\ last' = "detectAndClear"
    /\ UNCHANGED <<store, config, stopping, interval, started, alive, exit,
                   sigints, ended, late, swept>>

\* time passes: the records that were younger than MEMPOOL_AGE days are now
\* older (it shows only where a mempool record was younger)
Clock ==
    /\ alive /\ ~late
    /\ \E i \in DOMAIN txs : txs[i].blockHeight = Mempool /\ ~txs[i].old
    /\ late' = TRUE
    /\ last' = "clock"
    /\ UNCHANGED <<store, config, stopping, running, interval, started, alive,
                   exit, sigints, run, ended, swept>>

\* .then(() => process.emit('SIGINT', 'SIGINT'))
EmitSigint ==
    /\ alive
    /\ exit = "resolved"
    /\ exit' = "emitted"
    /\ sigints' = sigints + 1
    /\ last' = "SIGINT"
    /\ UNCHANGED <<store, config, stopping, running, interval, started, alive,
                   run, ended, late, swept>>

-----------------------------------------------------------------------------
(* detectAndClear: pairs and modes *)

\* a step of run s that touches only its own record
Step(s, r, name) ==
    /\ run' = [run EXCEPT ![s] = r]
    /\ last' = name
    /\ UNCHANGED <<store, config, stopping, running, interval, started, alive,
                   exit, sigints, ended, late, swept>>

\* the explicit pair, or the next pair of Config.chainNetworks()
NextPair(s) ==
    /\ alive /\ run[s].pc = "pair"
    /\ LET r == run[s] IN
       IF ExplicitPair
       THEN Step(s, [r EXCEPT !.pc = "old", !.chain = CHAIN, !.network = NETWORK,
                              !.visited = {1}], "pair")
       ELSE /\ r.pairIdx <= Len(chainNetworks)
            /\ ~PairIncomplete(chainNetworks[r.pairIdx])
            /\ Step(s, [r EXCEPT !.pc = "old",
                                 !.chain = chainNetworks[r.pairIdx].chain,
                                 !.network = chainNetworks[r.pairIdx].network,
                                 !.visited = @ \cup {r.pairIdx}], "pair")

\* throw new Error('Config structure should contain both a chain and network')
PairRejected(s) ==
    /\ alive /\ run[s].pc = "pair"
    /\ ~ExplicitPair
    /\ run[s].pairIdx <= Len(chainNetworks)
    /\ PairIncomplete(chainNetworks[run[s].pairIdx])
    /\ Step(s, Raise(run[s], "Config"), "pairRejected")

\* the for loop over Config.chainNetworks() is exhausted
PairsDone(s) ==
    /\ alive /\ run[s].pc = "pair"
    /\ ~ExplicitPair
    /\ run[s].pairIdx > Len(chainNetworks)
    /\ Step(s, [run[s] EXCEPT !.pc = "finally"], "pairsDone")

\* args.OLD is not set
SkipOld(s) ==
    /\ alive /\ run[s].pc = "old"
    /\ ~args.OLD
    /\ Step(s, [run[s] EXCEPT !.pc = "invalid"], "skipOld")

\* processOldMempoolTxs up to the pipe: countDocuments, find.  The cursor
\* delivers the documents that matched when it was opened (its first batch).
processOldMempoolTxs(s) ==
    /\ alive /\ run[s].pc = "old"
    /\ args.OLD
    /\ Step(s, [run[s] EXCEPT
                  !.pc = "stream", !.mode = "old",
                  !.cands = Txids(FindOldMempool(txs, run[s].chain, run[s].network))],
            "processOldMempoolTxs")

\* args.INVALID is not set
SkipInvalid(s) ==
    /\ alive /\ run[s].pc = "invalid"
    /\ ~args.INVALID
    /\ Step(s, AfterPair(run[s]), "skipInvalid")

\* processAllInvalidTxs up to the pipe: countDocuments, find
processAllInvalidTxs(s) ==
    /\ alive /\ run[s].pc = "invalid"
    /\ args.INVALID
    /\ Step(s, [run[s] EXCEPT
                  !.pc = "stream", !.mode = "invalid",
                  !.cands = Txids(FindInvalid(txs, run[s].chain, run[s].network))],
            "processAllInvalidTxs")

\* countDocuments rejects: the await throws into detectAndClear's try
CountFails(s) ==
    /\ alive
    /\ \/ run[s].pc = "old" /\ args.OLD
       \/ run[s].pc = "invalid" /\ args.INVALID
    /\ Step(s, Raise(run[s], "StoreIO"), "countFails")

-----------------------------------------------------------------------------
(* The transform stream of one mode of one pair *)

\* the cursor is exhausted: 'finish' resolves the promise of the pipeline
PipelineFinish(s) ==
    /\ alive /\ run[s].pc = "stream"
    /\ run[s].cands = <<>>
    /\ Step(s, IF run[s].mode = "old"
               THEN [run[s] EXCEPT !.pc = "invalid", !.mode = "none"]
               ELSE AfterPair(run[s]),
            "finish")

\* transform: if (this.stopping) return cb(new Error('Stopping'))
CandidateStopping(s) ==
    /\ alive /\ run[s].pc = "stream"
    /\ run[s].cands # <<>>
    /\ StopRequested
    /\ Step(s, Raise(run[s], "Stopping"), "stopping")

\* transform: outputGenerator = yieldRelatedOutputs(tx.txid), count = 0
CandidateBegin(s) ==
    /\ alive /\ run[s].pc = "stream"
    /\ run[s].cands # <<>>
    /\ ~StopRequested
    /\ Step(s, [run[s] EXCEPT
                  !.pc = "walk",
                  !.seed = Head(run[s].cands),
                  !.walk = yieldRelatedOutputs(coins, Head(run[s].cands)),
                  !.count = 0, !.spentTxids = {},
                  !.yielded = <<>>, !.before = store, !.issued = 0],
            "candidate")

\* one iteration of for await (const coin of outputGenerator)
WalkAfter(r) ==
    LET coin == Head(r.walk)
        got == [r EXCEPT !.yielded = Append(r.yielded, coin)]
    IN
    IF IsConfirmed(coin) THEN Raise(got, "DataIntegrity")
    ELSE IF TooManyDescendants(r.count + 1)
         THEN Throw([got EXCEPT !.count = r.count + 1], "ClosureTooLarge")
         ELSE [got EXCEPT !.count = r.count + 1,
                          !.spentTxids = AddSpender(r.spentTxids, coin),
                          !.walk = Tail(r.walk)]

WalkCoin(s) ==
    /\ alive /\ run[s].pc = "walk"
    /\ run[s].walk # <<>>
    /\ Step(s, WalkAfter(run[s]), "coin")

\* the calls the cascade of a mode issues
CallsOf(mode) == IF mode = "old" THEN RemoveCalls ELSE InvalidateCalls

\* the generator is done: spentTxids.add(tx.txid), uniqueTxids
WalkEnd(s) ==
    /\ alive /\ run[s].pc = "walk"
    /\ run[s].walk = <<>>
    /\ Step(s, [run[s] EXCEPT
                  !.pc = "call",
                  !.affected = uniqueTxids(run[s].spentTxids, run[s].seed)],
            "walkEnd")

\* removeOldMempool / clearInvalid with args.DRY return at once and the
\* transform calls back
CascadeDry(s) ==
    /\ alive /\ run[s].pc = "call"
    /\ DryRun
    /\ Step(s, [ClearCandidate(run[s]) EXCEPT !.pc = "stream",
                                              !.cands = Tail(run[s].cands)],
            "dry")

\* removeOldMempool / clearInvalid issue their store calls together
CascadeIssue(s) ==
    /\ alive /\ run[s].pc = "call"
    /\ ~DryRun
    /\ Step(s, [run[s] EXCEPT
                  !.pc = "cascade",
                  !.pending = CallsOf(run[s].mode),
                  !.issued = Cardinality(CallsOf(run[s].mode))],
            "cascade")

\* the store carries out one of the calls in flight
StoreCall(s, call) ==
    /\ alive /\ run[s].pc = "cascade"
    /\ call \in run[s].pending
    /\ txs' = TxsAfter(call, txs, run[s].chain, run[s].network, run[s].affected)
    /\ coins' = CoinsAfter(call, coins, run[s].chain, run[s].network, run[s].affected)
    /\ run' = [run EXCEPT ![s].pending = @ \ {call}]
    /\ last' = call
    /\ UNCHANGED <<config, stopping, running, interval, started, alive, exit,
                   sigints, ended, late, swept>>

\* the cascade is not awaited: cb() while its calls are in flight
CascadeDoneUnawaited(s) ==
    /\ alive /\ run[s].pc = "cascade"
    /\ Step(s, [ClearCandidate(run[s]) EXCEPT !.pc = "stream",
                                              !.cands = Tail(run[s].cands)],
            "cascadeDone")

\* Promise.all resolves: cb(), the stream asks for the next candidate
CascadeDone(s) ==
    /\ alive /\ run[s].pc = "cascade"
    /\ run[s].pending = {}
    /\ Step(s, [ClearCandidate(run[s]) EXCEPT !.pc = "stream",
                                              !.cands = Tail(run[s].cands)],
            "cascadeDone")

\* the store fails while calls are in flight: they are rejected, Promise.all
\* rejects and the await throws inside the transform
StoreFails(s) ==
    /\ alive /\ run[s].pc = "cascade"
    /\ run[s].pending # {}
    /\ Step(s, Throw(run[s], "StoreIO"), "storeFails")

\* The transform is an async function the stream calls without a catch.  An
\* exception inside it rejects a promise nobody holds; what follows depends
\* on the runtime.

\* the rejection is reported and ignored: cb is never called, the promise of
\* the pipeline never settles
RejectionIgnored(s) ==
    /\ alive /\ run[s].pc = "thrown"
    /\ Step(s, [run[s] EXCEPT !.pc = "hung"], "hung")

\* the runtime passes the rejection to the callback of the transform
RejectionPropagates(s) ==
    /\ alive /\ run[s].pc = "thrown"
    /\ Step(s, Raise(run[s], run[s].err), "propagated")

\* the runtime ends the process on the unhandled rejection
RejectionCrashes(s) ==
    /\ alive /\ run[s].pc = "thrown"
    /\ alive' = FALSE
    /\ last' = "crashed"
    /\ UNCHANGED <<store, config, stopping, running, interval, started, exit,
                   sigints, run, ended, late, swept>>

\* catch (err) { logger.error(...) }
Catch(s) ==
    /\ alive /\ run[s].pc = "catch"
    /\ Step(s, [run[s] EXCEPT !.pc = "finally"], "catch")

\* finally { this.running = false; }
Finally(s) ==
    /\ alive /\ run[s].pc = "finally"
    /\ running' = FALSE
    /\ run' = [run EXCEPT ![s] = IdleRun]
    /\ exit' = IF run[s].fromStart THEN "resolved" ELSE exit
    /\ ended' = run[s].err
    /\ last' = "finally"
    /\ swept' = IF run[s].err = "none" /\ args.OLD THEN run[s].visited ELSE {}
    /\ UNCHANGED <<store, config, stopping, interval, started, alive, sigints,
                   late>>

-----------------------------------------------------------------------------
(* Initial states: configurations and store contents *)

BTC == [chain |-> "BTC", network |-> "mainnet"]

BCH == [chain |-> "BCH", network |-> "mainnet"]

NoNetwork == [chain |-> "BTC", network |-> ""]

\* CHAIN, NETWORK and Config.chainNetworks(): an explicit pair, the configured
\* list, and a list with an incomplete pair when only CHAIN is given
Configs ==
    { [CHAIN |-> "BTC", NETWORK |-> "mainnet", chainNetworks |-> <<BTC, BCH>>],
      [CHAIN |-> "", NETWORK |-> "", chainNetworks |-> <<BTC, BCH>>],
      [CHAIN |-> "BTC", NETWORK |-> "", chainNetworks |-> <<BTC, NoNetwork, BCH>>] }

Flags == [OLD : BOOLEAN, INVALID : BOOLEAN, EXIT : BOOLEAN, DRY : BOOLEAN]

\* the second coin of a small store
SecondCoins ==
    { Coin("BTC", "mainnet", "T1", Mempool, "", Unspent),
      Coin("BTC", "mainnet", "T2", Mempool, "", Unspent),
      Coin("BTC", "mainnet", "T2", Genesis, "", Unspent),
      Coin("BTC", "mainnet", "T2", Mempool, "T3", Genesis),
      Coin("BTC", "mainnet", "T2", Mempool, "T1", Mempool),
      Coin("BTC", "mainnet", "T0", Genesis, "T2", Mempool),
      Coin("BCH", "mainnet", "T1", Genesis, "", Unspent),
      Coin("BCH", "mainnet", "T2", Mempool, "T3", Mempool) }

\* T1 is a candidate on BTC whose first output T2 spends; T2 and the second
\* coin vary
SmallStores ==
    { [txs |-> <<Tx("BTC", "mainnet", "T1", h1, TRUE),
                 Tx(p.chain, p.network, "T2", h2, TRUE)>>,
       coins |-> <<Coin("BTC", "mainnet", "T1", Mempool, "T2", Mempool), c2>>] :
      h1 \in {Mempool, Invalid}, p \in {BTC, BCH},
      h2 \in {Mempool, Invalid, Genesis}, c2 \in SecondCoins }

\* Scenario A: old mempool T1 with one unspent output and one spent by
\* unconfirmed T2, whose own output is unspent; T3 is not old
ScenarioA ==
    [txs |-> <<Tx("BTC", "mainnet", "T1", Mempool, TRUE),
               Tx("BTC", "mainnet", "T2", Mempool, FALSE),
               Tx("BTC", "mainnet", "T3", Mempool, FALSE)>>,
     coins |-> <<Coin("BTC", "mainnet", "T1", Mempool, "", Unspent),
                 Coin("BTC", "mainnet", "T1", Mempool, "T2", Mempool),
                 Coin("BTC", "mainnet", "T2", Mempool, "", Unspent),
                 Coin("BTC", "mainnet", "T3", Mempool, "", Unspent)>>]

\* Scenario B: invalid T1 whose single output is spent by unconfirmed T2
ScenarioB ==
    [txs |-> <<Tx("BTC", "mainnet", "T1", Invalid, TRUE),
               Tx("BTC", "mainnet", "T2", Mempool, FALSE)>>,
     coins |-> <<Coin("BTC", "mainnet", "T1", Mempool, "T2", Mempool),
                 Coin("BTC", "mainnet", "T2", Mempool, "", Unspent)>>]

\* T1 with n outputs, the last one spent by T2 or confirmed
FanOut(n, h1, lastCoin) ==
    [txs |-> <<Tx("BTC", "mainnet", "T1", h1, TRUE),
               Tx("BTC", "mainnet", "T2", h1, TRUE)>>,
     coins |-> [i \in 1..n |->
                  IF i = n THEN lastCoin
                  ELSE Coin("BTC", "mainnet", "T1", Mempool, "", Unspent)]]

FanOutStores ==
    { FanOut(n, h1, lastCoin) :
      n \in (MaxDescendants - 1)..(MaxDescendants + FanOutSlack),
      h1 \in {Mempool, Invalid},
      lastCoin \in { Coin("BTC", "mainnet", "T1", Mempool, "T2", Mempool),
                     Coin("BTC", "mainnet", "T1", Mempool, "", Genesis) } }

Stores == SmallStores \cup {ScenarioA, ScenarioB} \cup FanOutStores

Init ==
    /\ \E st \in Stores : txs = st.txs /\ coins = st.coins
    /\ args \in Flags
    /\ \E c \in Configs :
          /\ CHAIN = c.CHAIN
          /\ NETWORK = c.NETWORK
          /\ chainNetworks = c.chainNetworks
    /\ stopping = FALSE
    /\ running = FALSE
    /\ interval = FALSE
    /\ started = FALSE
    /\ alive = TRUE
    /\ exit = "none"
    /\ sigints = 0
    /\ run = [s \in Slots |-> IdleRun]
    /\ ended = "none"
    /\ last = "init"
    /\ late = FALSE
    /\ swept = {}

\* the steps of run s
RunStep(s) ==
          \/ NextPair(s)
          \/ PairRejected(s)
          \/ PairsDone(s)
          \/ SkipOld(s)
          \/ processOldMempoolTxs(s)
          \/ SkipInvalid(s)
          \/ processAllInvalidTxs(s)
          \/ CountFails(s)
          \/ PipelineFinish(s)
          \/ CandidateStopping(s)
          \/ CandidateBegin(s)
          \/ WalkCoin(s)
          \/ WalkEnd(s)
          \/ CascadeDry(s)
          \/ CascadeIssue(s)
          \/ \E call \in RemoveCalls \cup InvalidateCalls : StoreCall(s, call)
          \/ CascadeDone(s)
          \/ StoreFails(s)
          \/ RejectionIgnored(s)
          \/ RejectionPropagates(s)
          \/ RejectionCrashes(s)
          \/ Catch(s)
          \/ Finally(s)

Next ==
    \/ start
    \/ stop
    \/ TickDropped
    \/ TickStarts
    \/ Clock
    \/ EmitSigint
    \/ \E s \in Slots : RunStep(s)

Spec == Init /\ [][Next]_vars

\* the event loop runs a callback that is ready, and a store call in flight
\* settles: some step is taken whenever one can be
FairSpec == Spec /\ WF_vars(Next)

-----------------------------------------------------------------------------
(* Properties *)

StoreCalls == RemoveCalls \cup InvalidateCalls

Unconfirmed(coin) == coin.mintHeight < 0 /\ coin.spentHeight < 0

AllUnconfirmed(cs) == \A i \in DOMAIN cs : Unconfirmed(cs[i])

SpendersIn(cs) == {cs[i].spentTxid : i \in {j \in DOMAIN cs : cs[j].spentTxid # ""}}

ConfirmedTxs(ts) == SelectSeq(ts, LAMBDA t : t.blockHeight >= 0)

ConfirmedCoins(cs) ==
    SelectSeq(cs, LAMBDA c : c.mintHeight >= 0 \/ c.spentHeight >= 0)

\* the coins with a confirmed mint height, their spent height left out
MintConfirmed(cs) ==
    LET m == SelectSeq(cs, LAMBDA c : c.mintHeight >= 0) IN
    [i \in DOMAIN m |-> [m[i] EXCEPT !.spentHeight = Unspent]]

AllPairsComplete ==
    \A i \in DOMAIN chainNetworks : ~PairIncomplete(chainNetworks[i])

\* C1: detectAndClear is single-flight.  At most one run is active in every
\* reachable state; a trigger that arrives while a run is active changes
\* neither the store nor any run; and every change of the store is one store
\* call of the cascade of the one active run.
C1_SingleFlight ==
    /\ [](Cardinality(ActiveRuns) <= 1)
    /\ [][/\ last' = "dropped" => UNCHANGED <<store, run, running>>
          /\ store' # store =>
               \E s \in Slots :
                  /\ ActiveRuns = {s}
                  /\ run[s].pc = "cascade"
                  /\ \E call \in run[s].pending :
                        /\ txs' = TxsAfter(call, txs, run[s].chain,
                                           run[s].network, run[s].affected)
                        /\ coins' = CoinsAfter(call, coins, run[s].chain,
                                               run[s].network, run[s].affected)
                        /\ run'[s].pending = run[s].pending \ {call}]_vars

\* a trigger was dropped while the cascade of the active run was in flight
C1_DroppedDuringCascade ==
    /\ last = "dropped"
    /\ \E s \in Slots : run[s].pc = "cascade" /\ run[s].pending # {}

\* C2: per-pair fault isolation.  When the pairs come from the chain
\* configuration (all of them complete) and a run has ended after a
\* DataIntegrityError, a ClosureTooLargeError or a store failure on one pair,
\* every pair of the list has been processed in that run.
C2_LaterPairsProcessed ==
    \A s \in Slots :
        /\ run[s].pc = "finally"
        /\ ~ExplicitPair
        /\ AllPairsComplete
        /\ run[s].err \in {"DataIntegrity", "ClosureTooLarge", "StoreIO"}
        => run[s].visited = DOMAIN chainNetworks

\* C3: the scheduler survives every run outcome.  Whatever has happened in a
\* run, the run can still take a step towards releasing the latch: no active
\* run is ever left without a step.
C3_RunCanFinish ==
    \A s \in Slots : Active(s) => ENABLED RunStep(s)

\* C4 as stated: no step deletes or updates a transaction with a
\* non-negative blockHeight or a coin with a non-negative mintHeight or
\* spentHeight.
C4_NoConfirmedRecordMutated ==
    [][/\ ConfirmedTxs(txs') = ConfirmedTxs(txs)
       /\ ConfirmedCoins(coins') = ConfirmedCoins(coins)]_vars

\* C4 as amended: no step deletes a transaction with a non-negative
\* blockHeight, and no step deletes a coin with a non-negative mintHeight or
\* overwrites that mintHeight (its spentHeight may be reset, and a confirmed
\* transaction selected by txid may be set conflicting, by Invalidate).
C4_ConfirmedNeverDeleted ==
    [][/\ Len(txs') # Len(txs) => ConfirmedTxs(txs') = ConfirmedTxs(txs)
       /\ MintConfirmed(coins') = MintConfirmed(coins)]_vars

\* a delete has acted on a store that holds a confirmed transaction of the
\* pair whose txid is in the affected set
C4_DeleteSparedConfirmed ==
    /\ last = "deleteTxs"
    /\ \E s \in Slots : \E i \in DOMAIN txs :
          /\ run[s].pc = "cascade"
          /\ txs[i].blockHeight >= 0
          /\ txs[i].txid \in run[s].affected
          /\ txs[i].chain = run[s].chain
          /\ txs[i].network = run[s].network

\* C5: if a coin the loop takes from the closure walk has mintHeight >= 0 or
\* spentHeight >= 0, the candidate is aborted with DataIntegrityError, no
\* store call has been issued for it and the store is as it was when the
\* candidate began.
C5_ConfirmedCoinAborts ==
    \A s \in Slots :
        (\E i \in DOMAIN run[s].yielded :
            run[s].yielded[i].mintHeight >= 0 \/ run[s].yielded[i].spentHeight >= 0)
        => /\ run[s].pc \in {"catch", "finally"}
           /\ run[s].err = "DataIntegrity"
           /\ run[s].issued = 0
           /\ store = run[s].before

\* the offending coin came after a coin whose spender had been collected
C5_AbortAfterSpenderCollected ==
    \E s \in Slots :
        /\ run[s].err = "DataIntegrity"
        /\ Len(run[s].yielded) >= 2
        /\ run[s].spentTxids # {}
        /\ ~Unconfirmed(run[s].yielded[Len(run[s].yielded)])

\* C6: the ceiling is 50 coins.  A candidate whose walk has yielded more
\* than 50 unconfirmed coins is aborted with ClosureTooLargeError with no
\* store call issued and the store unchanged; a candidate is never aborted
\* with that error at 50 or fewer, and only a walk of at most 50 coins
\* reaches the cascade.
C6_Ceiling ==
    \A s \in Slots :
        LET y == run[s].yielded IN
        /\ Len(y) > MaxDescendants /\ AllUnconfirmed(y)
           => /\ run[s].err = "ClosureTooLarge"
              /\ run[s].pc \in {"thrown", "hung", "catch", "finally"}
              /\ run[s].issued = 0
              /\ store = run[s].before
        /\ Len(y) <= MaxDescendants => run[s].err # "ClosureTooLarge"
        /\ run[s].pc \in {"call", "cascade"} => Len(y) <= MaxDescendants

\* a walk of exactly 50 unconfirmed coins was accepted and its cascade
\* applied in full
C6_FiftyAccepted ==
    \E s \in Slots :
        /\ run[s].pc = "cascade"
        /\ run[s].pending = {}
        /\ Len(run[s].yielded) = MaxDescendants
        /\ store # run[s].before

\* C7: fail-fast.  Once a candidate has raised DataIntegrityError or
\* ClosureTooLargeError, the pipeline has ended with that error (it is on
\* its way to the catch of detectAndClear).
C7_PipelineEndsWithError ==
    \A s \in Slots :
        run[s].err \in {"DataIntegrity", "ClosureTooLarge"}
        => run[s].pc \in {"thrown", "catch", "finally"}

\* C8: the affected set passed to the cascade.  The walk has yielded at most
\* 50 coins, all unconfirmed, the whole of the closure, and the set is the
\* seed together with the spentTxid of every yielded coin that has one.
C8_AffectedSet ==
    \A s \in Slots :
        run[s].pc \in {"call", "cascade"}
        => LET y == run[s].yielded IN
           /\ Len(y) <= MaxDescendants
           /\ AllUnconfirmed(y)
           /\ y = yieldRelatedOutputs(run[s].before[2], run[s].seed)
           /\ run[s].affected = {run[s].seed} \cup SpendersIn(y)

\* a cascade was passed the seed and a spender
C8_SeedAndSpender ==
    \E s \in Slots :
        /\ run[s].pc = "call"
        /\ run[s].seed = "T1"
        /\ run[s].affected = {"T1", "T2"}

\* C9: dry-run never mutates.  With args.DRY set no step changes the
\* transaction or the coin collection.
C9_DryRunFrame == [][args.DRY => UNCHANGED store]_vars

\* a dry cascade returned for a candidate after stop() had been called
C9_DryCascadeReturned ==
    /\ args.DRY /\ args.OLD /\ args.INVALID
    /\ last = "dry"
    /\ stopping

\* C10: cooperative cancellation at candidate boundaries.  With the flag set
\* no candidate begins its walk; a transform invoked for a candidate ends the
\* pipeline with the error 'Stopping' and leaves the store as the completed
\* candidates left it; stop() itself changes neither a run nor the store; a
\* cascade is left only when all its calls have settled or the store failed,
\* and each call in flight can still be carried out.
C10_Cancellation ==
    /\ [][\A s \in Slots :
            /\ stopping => ~(run[s].pc # "walk" /\ run'[s].pc = "walk")
            /\ stopping /\ run[s].pc = "stream" /\ run[s].cands # <<>>
                        /\ run'[s] # run[s]
               => /\ run'[s].pc = "catch"
                  /\ run'[s].err = "Stopping"
                  /\ store' = store
            /\ stopping' /\ ~stopping => run' = run /\ store' = store
            /\ run[s].pc = "cascade" /\ run'[s].pc # "cascade"
               => run[s].pending = {} \/ run'[s].err = "StoreIO"]_vars
    /\ [](\A s \in Slots : \A call \in StoreCalls :
            run[s].pc = "cascade" /\ call \in run[s].pending
            => ENABLED StoreCall(s, call))

\* stop() was called while a candidate was in progress and its cascade has
\* applied all its calls
C10_CascadeCompletedAfterStop ==
    /\ stopping
    /\ last \in StoreCalls
    /\ \E s \in Slots : run[s].pc = "cascade" /\ run[s].pending = {}

\* run s is in the old-mempool sweep of a pair that the run before it swept
\* to the end, and that run ended without an error
SecondSweep(s) ==
    /\ run[s].mode = "old"
    /\ run[s].pc \in {"stream", "walk", "call", "cascade"}
    /\ ended = "none"
    /\ run[s].pairIdx \in swept

\* C11 as stated: old-mempool removal is idempotent.  The old-mempool sweep
\* of a pair that follows a run which swept that pair and ended without an
\* error finds no candidate, and the store holds none for the pair.
C11_SecondSweepFindsNothing ==
    \A s \in Slots :
        SecondSweep(s)
        => /\ run[s].cands = <<>>
           /\ FindOldMempool(txs, run[s].chain, run[s].network) = <<>>

\* C11 as amended: with args.DRY off and before any record has grown older
\* than the age limit, the second sweep finds no candidate, the store holds
\* none for the pair, and no step of the sweep changes the store.
C11_SecondSweepIdle ==
    /\ [](\A s \in Slots :
            SecondSweep(s) /\ ~args.DRY /\ ~late
            => /\ run[s].cands = <<>>
               /\ run[s].pc = "stream"
               /\ FindOldMempool(txs, run[s].chain, run[s].network) = <<>>)
    /\ [][\A s \in Slots :
            SecondSweep(s) /\ ~args.DRY /\ ~late => UNCHANGED store]_vars

\* the first run deleted transactions and the second sweep of the pair has
\* opened its cursor
C11_SweptTwice ==
    \E s \in Slots :
        /\ SecondSweep(s) /\ ~args.DRY /\ ~late
        /\ Len(txs) < 2
        /\ last = "processOldMempoolTxs"

\* the cascade of the candidate of run s has applied all its calls
CascadeApplied(s, mode) ==
    /\ run[s].pc = "cascade"
    /\ run[s].mode = mode
    /\ run[s].pending = {}

\* C12: the effect of remove-old-mempool.  When the two deletes of a cascade
\* have been applied, the transactions left are those the candidate found
\* less the ones of the pair with txid in the affected set and blockHeight
\* -1, the coins left are those it found less the ones of the pair with
\* mintTxid in the set and mintHeight -1, each as it was and in its place.
\* In Scenario A the set is {T1, T2} and only T3 and its coin are left.
C12_RemoveOldEffect ==
    \A s \in Slots :
        CascadeApplied(s, "old")
        => LET r == run[s] IN
           /\ txs = SelectSeq(r.before[1],
                        LAMBDA t : \/ t.chain # r.chain
                                   \/ t.network # r.network
                                   \/ t.txid \notin r.affected
                                   \/ t.blockHeight # -1)
           /\ coins = SelectSeq(r.before[2],
                        LAMBDA c : \/ c.chain # r.chain
                                   \/ c.network # r.network
                                   \/ c.mintTxid \notin r.affected
                                   \/ c.mintHeight # -1)
           /\ r.before = <<ScenarioA.txs, ScenarioA.coins>> /\ r.seed = "T1"
              => /\ r.affected = {"T1", "T2"}
                 /\ txs = <<ScenarioA.txs[3]>>
                 /\ coins = <<ScenarioA.coins[4]>>

\* the cascade of T1 has been applied to the store of Scenario A
C12_ScenarioARemoved ==
    \E s \in Slots :
        /\ CascadeApplied(s, "old")
        /\ run[s].before = <<ScenarioA.txs, ScenarioA.coins>>
        /\ run[s].seed = "T1"
        /\ Len(txs) = 1

\* C13: the effect of invalidate.  When the three updates of a cascade have
\* been applied, the store holds the records the candidate found, in their
\* places, where every transaction with txid in the affected set has
\* blockHeight conflicting, every coin with spentTxid in the set has
\* spentHeight unspent, every coin with mintTxid in the set has mintHeight
\* conflicting, and every other field of every record is as it was.  In
\* Scenario B the set is {T1, T2}, both transactions are conflicting, the coin
\* T1 minted and T2 spent is unspent with mintHeight conflicting.
C13_InvalidateEffect ==
    \A s \in Slots :
        CascadeApplied(s, "invalid")
        => LET r == run[s]
               S == r.affected
               bt == r.before[1]
               bc == r.before[2]
           IN
           /\ DOMAIN txs = DOMAIN bt
           /\ \A i \in DOMAIN bt :
                 /\ txs[i].blockHeight =
                       IF bt[i].txid \in S THEN Conflicting ELSE bt[i].blockHeight
                 /\ [txs[i] EXCEPT !.blockHeight = 0]
                       = [bt[i] EXCEPT !.blockHeight = 0]
           /\ DOMAIN coins = DOMAIN bc
           /\ \A i \in DOMAIN bc :
                 /\ coins[i].spentHeight =
                       IF bc[i].spentTxid \in S THEN Unspent ELSE bc[i].spentHeight
                 /\ coins[i].mintHeight =
                       IF bc[i].mintTxid \in S THEN Conflicting ELSE bc[i].mintHeight
                 /\ [coins[i] EXCEPT !.spentHeight = 0, !.mintHeight = 0]
                       = [bc[i] EXCEPT !.spentHeight = 0, !.mintHeight = 0]
           /\ r.before = <<ScenarioB.txs, ScenarioB.coins>> /\ r.seed = "T1"
              => /\ S = {"T1", "T2"}
                 /\ txs[1].blockHeight = Conflicting
                 /\ txs[2].blockHeight = Conflicting
                 /\ coins[1].spentHeight = Unspent
                 /\ coins[1].mintHeight = Conflicting

\* the cascade of T1 has been applied to the store of Scenario B
C13_ScenarioBInvalidated ==
    \E s \in Slots :
        /\ CascadeApplied(s, "invalid")
        /\ run[s].before = <<ScenarioB.txs, ScenarioB.coins>>
        /\ run[s].seed = "T1"
        /\ last \in InvalidateCalls

\* a detectAndClear invocation begins in this step
RunBegins == \E s \in Slots : run[s].pc = "idle" /\ run'[s].pc # "idle"

\* C14: run-once mode.  With args.EXIT, start() begins the only pass and arms
\* no timer; SIGINT is emitted at most once and only when that pass has
\* finished; and once start() has been called SIGINT is eventually emitted,
\* whatever happens in the pass.
C14_RunOnce ==
    /\ [](args.EXIT => ~interval /\ sigints <= 1)
    /\ [][args.EXIT =>
            /\ RunBegins => last' = "start"
            /\ sigints' # sigints
               => started /\ ActiveRuns = {} /\ exit = "resolved"]_vars
    /\ (args.EXIT /\ started) ~> (sigints = 1)

\* C15: stop() sets the flag and cancels the timer in one step, changing no
\* run and not the store, and it can be called while a run is active.  The
\* timer is armed by start() alone and a run the timer starts needs it armed:
\* after a stop() that follows start() no run is ever started again.
C15_StopCancelsTimer ==
    /\ [][/\ last' = "stop"
             => /\ stopping' /\ ~interval'
                /\ UNCHANGED <<store, run, running>>
          /\ interval' /\ ~interval => last' = "start"
          /\ RunBegins /\ last' # "start" => interval
          /\ started /\ stopping /\ ~interval => ~RunBegins /\ ~interval']_vars
    /\ [](alive /\ ~stopping => ENABLED stop)

\* stop() was called with the timer armed while a cascade was in flight
C15_StoppedDuringCascade ==
    /\ last = "stop"
    /\ started /\ ~args.EXIT
    /\ \E s \in Slots : run[s].pc = "cascade" /\ run[s].pending # {}

\* the records of a collection that are not of the pair of run s
OfOtherPairs(recs, s) ==
    SelectSeq(recs, LAMBDA x : x.chain # run[s].chain \/ x.network # run[s].network)

\* C16: mutations are scoped to the pair being processed.  No step taken
\* while a run is in a cascade, in either mode, changes or deletes a
\* transaction or a coin of another chain or network.
C16_ScopedToPair ==
    [][\A s \in Slots :
          run[s].pc = "cascade"
          => /\ OfOtherPairs(txs', s) = OfOtherPairs(txs, s)
             /\ OfOtherPairs(coins', s) = OfOtherPairs(coins, s)]_vars

\* run s has a candidate in its transform
InTransform(s) == run[s].pc \in {"walk", "call", "cascade", "thrown", "hung"}

\* C17: the pipeline is strictly sequential.  One candidate at most is in a
\* transform, and it is the head of the cursor; the next candidate is taken
\* only when the cascade of the one before has settled all its calls (or
\* returned dry); the invalid sweep of a pair begins only when its old sweep
\* has delivered every candidate, or is switched off; the pairs are taken
\* in the order of the list, one at a time, each processed before the next.
C17_Sequential ==
    /\ [](/\ Cardinality({s \in Slots : InTransform(s)}) <= 1
          /\ \A s \in Slots :
                /\ InTransform(s)
                   => run[s].cands # <<>> /\ run[s].seed = Head(run[s].cands)
                /\ run[s].visited = 1..Cardinality(run[s].visited)
                /\ run[s].pc \in {"old", "invalid", "stream"} \/ InTransform(s)
                   => /\ run[s].visited = 1..run[s].pairIdx
                      /\ ~ExplicitPair
                         => /\ run[s].chain = chainNetworks[run[s].pairIdx].chain
                            /\ run[s].network = chainNetworks[run[s].pairIdx].network)
    /\ [][\A s \in Slots :
            /\ run[s].cands # <<>> /\ run'[s].cands # run[s].cands
                                  /\ run'[s].err = "none"
               => /\ run'[s].cands = Tail(run[s].cands)
                  /\ run[s].pc \in {"call", "cascade"}
                  /\ run[s].pending = {}
                  /\ run'[s].pc = "stream"
            /\ run[s].pc # "walk" /\ run'[s].pc = "walk"
               => run[s].pc = "stream" /\ run[s].pending = {}
            /\ run[s].pc # "invalid" /\ run'[s].pc = "invalid"
               => \/ run[s].pc = "old" /\ ~args.OLD
                  \/ run[s].pc = "stream" /\ run[s].mode = "old"
                                          /\ run[s].cands = <<>>
            /\ Active(s) /\ run'[s].pairIdx # run[s].pairIdx
               => /\ run'[s].pc \in {"pair", "idle"}
                  /\ run'[s].pc = "pair"
                     => /\ run'[s].pairIdx = run[s].pairIdx + 1
                        /\ \/ run[s].pc = "invalid" /\ ~args.INVALID
                           \/ run[s].pc = "stream" /\ run[s].mode = "invalid"
                                                   /\ run[s].cands = <<>>]_vars

\* the walk of the second candidate of the cursor has begun on the store the
\* cascade of the first left
C17_SecondCandidateAfterCascade ==
    \E s \in Slots :
        /\ run[s].pc = "walk"
        /\ run[s].seed = "T2"
        /\ Len(run[s].cands) = 1
        /\ Len(run[s].before[1]) < 2

\* C18: pair validation.  With no explicit pair and an incomplete pair in
\* the chain configuration, the pairs are validated when they are resolved,
\* before any of them is processed: no step of a run changes the store.
C18_ValidatedBeforeAnyPair ==
    [][\A s \in Slots :
          ~ExplicitPair /\ ~AllPairsComplete /\ Active(s)
          => UNCHANGED store]_vars

\* C19: the latch.  this.running is true exactly while one run is between
\* its entry and the end of its finally block; a dropped trigger leaves the
\* flag set and every run as it is; the flag is cleared only by the finally
\* of the run that set it, and set only by a run that begins.
C19_Latch ==
    /\ [](running <=> Cardinality(ActiveRuns) = 1)
    /\ [](~running <=> ActiveRuns = {})
    /\ [][/\ last' = "dropped" => running /\ running' /\ run' = run
          /\ running /\ ~running'
             => \E s \in Slots : /\ run[s].pc = "finally"
                                 /\ run'[s].pc = "idle"
                                 /\ ActiveRuns = {s}
          /\ ~running /\ running' => RunBegins]_vars

\* a trigger was dropped while the run holding the latch was in a closure
\* walk, and the latch is still held
C19_DroppedDuringWalk ==
    /\ last = "dropped"
    /\ running
    /\ \E s \in Slots : run[s].pc = "walk" /\ run[s].yielded # <<>>

\* C20: the invalidate cascade does not depend on the order of its updates.
\* In every state of a cascade the store is determined by the set of updates
\* applied so far, whatever their order: a field holds the value the
\* candidate found until its own update has been applied and the final value
\* from then on, for the records selected by the txid, spentTxid and
\* mintTxid the candidate found, which no update changes.
C20_OrderIndependent ==
    \A s \in Slots :
        run[s].pc = "cascade" /\ run[s].mode = "invalid"
        => LET r == run[s]
               S == r.affected
               bt == r.before[1]
               bc == r.before[2]
               applied == InvalidateCalls \ r.pending
           IN
           /\ DOMAIN txs = DOMAIN bt
           /\ DOMAIN coins = DOMAIN bc
           /\ \A i \in DOMAIN bt :
                 /\ txs[i].txid = bt[i].txid
                 /\ txs[i].blockHeight =
                       IF "updateTxs" \in applied /\ bt[i].txid \in S
                       THEN Conflicting ELSE bt[i].blockHeight
           /\ \A i \in DOMAIN bc :
                 /\ coins[i].spentTxid = bc[i].spentTxid
                 /\ coins[i].mintTxid = bc[i].mintTxid
                 /\ coins[i].spentHeight =
                       IF "updateSpent" \in applied /\ bc[i].spentTxid \in S
                       THEN Unspent ELSE bc[i].spentHeight
                 /\ coins[i].mintHeight =
                       IF "updateMint" \in applied /\ bc[i].mintTxid \in S
                       THEN Conflicting ELSE bc[i].mintHeight

\* the transient window: the mint update has been applied before the spent
\* update, and a coin shows mintHeight conflicting with its spend still
\* pending
C20_ConflictingMintStaleSpent ==
    \E s \in Slots :
        /\ run[s].pc = "cascade" /\ run[s].mode = "invalid"
        /\ "updateSpent" \in run[s].pending
        /\ last = "updateMint"
        /\ \E i \in DOMAIN coins :
              /\ coins[i].mintHeight = Conflicting
              /\ coins[i].spentTxid \in run[s].affected
              /\ coins[i].spentHeight = Mempool

====
